---- MODULE Spec2Model ----
(***************************************************************************)
(* Tutorial generation pipeline of PocketFlow-Tutorial-Codebase-Knowledge. *)
(*                                                                         *)
(* Modelled programs:                                                      *)
(*   src/standalone_tutorial_generator.py  main() and its six stages,      *)
(*                                          call_llm and its cache         *)
(*   src/flow.py                           the PocketFlow node chain       *)
(*                                                                         *)
(* Text is a sequence of atoms.  An atom is one character (" ", "#", a     *)
(* digit, a newline) or one word of fixed prose that the code never looks  *)
(* into ("Chapter", a name, a block of instructions).  All string          *)
(* operations of the code (strip, split, startswith, slicing, len) are     *)
(* computed on these sequences.                                            *)
(***************************************************************************)
EXTENDS Integers, Sequences, FiniteSets, TLC

(***************************************************************************)
(* Bounds of the model                                                     *)
(***************************************************************************)
MaxFiles == 2      \* files the provider returns: 0..MaxFiles
MaxAbs == 2        \* records in an abstraction response: 0..MaxAbs
MaxCalls == 3      \* call_llm calls in one run of the call_llm program
MaxContent == 5    \* length of a file content given to the truncation: 0..MaxContent
MaxTreeDepth == 2  \* sub-directory levels of the crawled repository: 0..MaxTreeDepth
recursion_limit == 5  \* frames fetch_contents may stack (Python: 1000 for all calls)
MaxLines == 2      \* request lines the server reads: 0..MaxLines
MaxBudget == 4     \* max_chars_per_file given to the truncation: 0..MaxBudget

(***************************************************************************)
(* Python helpers                                                          *)
(***************************************************************************)
NL == "\n"

Whitespace == {" ", NL}

Digits == {"0", "1", "2", "3", "4", "5", "6", "7", "8", "9"}

DigitVal(c) ==
    CASE c = "0" -> 0 [] c = "1" -> 1 [] c = "2" -> 2 [] c = "3" -> 3
      [] c = "4" -> 4 [] c = "5" -> 5 [] c = "6" -> 6 [] c = "7" -> 7
      [] c = "8" -> 8 [] c = "9" -> 9

DigitChar(d) ==
    CASE d = 0 -> "0" [] d = 1 -> "1" [] d = 2 -> "2" [] d = 3 -> "3"
      [] d = 4 -> "4" [] d = 5 -> "5" [] d = 6 -> "6" [] d = 7 -> "7"
      [] d = 8 -> "8" [] d = 9 -> "9"

\* a result of a computation that may raise
Ok(v) == [ok |-> TRUE, val |-> v, err |-> "none"]

Raise(e) == [ok |-> FALSE, val |-> <<>>, err |-> e]

\* s[:k] and s[-k:] of Python for 0 <= k; s[-0:] is the whole of s
Take(s, k) == SubSeq(s, 1, IF k < Len(s) THEN k ELSE Len(s))

TakeLast(s, k) ==
    IF k = 0 \/ k >= Len(s) THEN s ELSE SubSeq(s, Len(s) - k + 1, Len(s))

RECURSIVE LStrip(_)
LStrip(s) ==
    IF s # <<>> /\ Head(s) \in Whitespace THEN LStrip(Tail(s)) ELSE s

RECURSIVE RStrip(_)
RStrip(s) ==
    IF s # <<>> /\ s[Len(s)] \in Whitespace
    THEN RStrip(SubSeq(s, 1, Len(s) - 1))
    ELSE s

\* str.strip()
Strip(s) == RStrip(LStrip(s))

\* str.startswith(p)
StartsWith(s, p) == Len(p) <= Len(s) /\ SubSeq(s, 1, Len(p)) = p

\* s.split(sep)[0] for a one-character separator
RECURSIVE SplitFirst(_, _)
SplitFirst(s, sep) ==
    IF s = <<>> \/ Head(s) = sep THEN <<>>
    ELSE <<Head(s)>> \o SplitFirst(Tail(s), sep)

Contains(s, c) == \E k \in 1..Len(s) : s[k] = c

RECURSIVE DigitsValue(_, _)
DigitsValue(s, acc) ==
    IF s = <<>> THEN acc ELSE DigitsValue(Tail(s), 10 * acc + DigitVal(Head(s)))

\* int(s) of a str: surrounding whitespace and one sign are allowed
IntOfStr(s) ==
    LET t == Strip(s)
        signed == t # <<>> /\ Head(t) \in {"-", "+"}
        body == IF signed THEN Tail(t) ELSE t
    IN  IF body = <<>> \/ \E k \in 1..Len(body) : body[k] \notin Digits
        THEN Raise("ValueError")
        ELSE Ok(IF signed /\ Head(t) = "-"
                THEN 0 - DigitsValue(body, 0)
                ELSE DigitsValue(body, 0))

RECURSIVE NatDigits(_)
NatDigits(n) ==
    IF n < 10 THEN <<DigitChar(n)>>
    ELSE NatDigits(n \div 10) \o <<DigitChar(n % 10)>>

\* str(i) of an int
StrOfInt(i) == IF i < 0 THEN <<"-">> \o NatDigits(0 - i) ELSE NatDigits(i)

\* seq[i] of Python: negative indices count from the end
PyInRange(seq, i) == 0 - Len(seq) <= i /\ i < Len(seq)

PyIndex(seq, i) == IF i >= 0 THEN seq[i + 1] ELSE seq[Len(seq) + i + 1]

SetOfSeq(s) == {s[k] : k \in 1..Len(s)}

Min(S) == CHOOSE x \in S : \A y \in S : x <= y

\* sorted(list(S)) of a set of ints
RECURSIVE Sorted(_)
Sorted(S) ==
    IF S = {} THEN <<>> ELSE <<Min(S)>> \o Sorted(S \ {Min(S)})

\* all sequences over S of length 0..n
RECURSIVE SeqsUpTo(_, _)
SeqsUpTo(S, n) ==
    IF n = 0 THEN {<<>>}
    ELSE LET shorter == SeqsUpTo(S, n - 1)
         IN  shorter \cup {Append(s, x) : s \in {t \in shorter : Len(t) = n - 1}, x \in S}

\* values yaml.safe_load yields for a scalar: an int, a str or a bool
IntEntry(v) == [t |-> "int", v |-> v, s |-> <<>>]

StrEntry(s) == [t |-> "str", v |-> 0, s |-> s]

\* a bool is an int in Python: True counts as 1 and False as 0
BoolEntry(b) == [t |-> "bool", v |-> IF b THEN 1 ELSE 0, s |-> <<>>]

\* isinstance(x, int) of a loaded scalar
IsInstanceInt(e) == e.t \in {"int", "bool"}

\* str(x) of a loaded scalar
StrOfEntry(e) ==
    CASE e.t = "int" -> StrOfInt(e.v)
      [] e.t = "bool" -> IF e.v = 1 THEN <<"T", "r", "u", "e">>
                         ELSE <<"F", "a", "l", "s", "e">>
      [] OTHER -> e.s

(***************************************************************************)
(* The file provider and the model's responses (inputs of the run)         *)
(***************************************************************************)
FilePaths == <<"a.py", "b.py", "c.py", "d.py">>

\* the (path, content) list a crawl returns when it finds n files
CrawlResult(n) == [k \in 1..n |-> <<FilePaths[k], <<"code", FilePaths[k]>>>>]

AbsNames == <<"Alpha", "Beta", "Gamma", "Delta">>

\* scalars a model may write where an index into a list of n entries is expected
IndexEntries(n) ==
    {IntEntry(k) : k \in (0 - 1)..n}
        \cup {StrEntry(<<"0", " ", "#", " ", "ref">>), StrEntry(<<"x">>)}

\* file reference lists a model may write for one abstraction, given n files
RefLists(n) ==
    {<<>>, <<IntEntry(0), IntEntry(0)>>, <<IntEntry(n - 1), IntEntry(0)>>}
        \cup {<<e>> : e \in IndexEntries(n)}

AbsItem(k, refs) ==
    [name |-> AbsNames[k], description |-> "about", file_indices |-> refs]

\* the loaded YAML of an abstraction response; fence: the ```yaml block is there.
\* Records before the last one reference one existing file each.
AbsResponses(n) ==
    {[fence |-> FALSE, items |-> <<>>], [fence |-> TRUE, items |-> <<>>]} \cup
    {[fence |-> TRUE,
      items |-> [k \in 1..m |->
                   AbsItem(k, IF k < m THEN <<IntEntry((k - 1) % n)>> ELSE refs)]] :
        m \in 1..MaxAbs, refs \in RefLists(n)}

RelItem(from, to) ==
    [from_abstraction |-> from, to_abstraction |-> to, label |-> "Uses"]

\* the last relationship of a response: one end is abstraction 0, the other
\* end is any scalar a model may write
LastRels(N) ==
    {RelItem(from, IntEntry(0)) : from \in IndexEntries(N)}
        \cup {RelItem(IntEntry(0), IntEntry(to)) : to \in (0 - 1)..N}

\* the loaded YAML of a relationship response for N abstractions: a chain
\* 0 -> 1 -> ... followed by one more relationship
RelResponses(N) ==
    {[fence |-> FALSE, summary |-> "none", relationships |-> <<>>],
     [fence |-> TRUE, summary |-> "summary", relationships |-> <<>>]} \cup
    {[fence |-> TRUE, summary |-> "summary",
      relationships |-> [k \in 1..m |->
                           IF k < m THEN RelItem(IntEntry(k - 1), IntEntry(k % N))
                           ELSE last]] :
        m \in 1..N, last \in LastRels(N)}

\* the loaded YAML of a chapter-order response for N abstractions: 0, 1, ...
\* with an arbitrary last entry, or N-1, ..., 0, or 0, ..., N-1 and 0 again
OrderResponses(N) ==
    {[fence |-> FALSE, entries |-> <<>>], [fence |-> TRUE, entries |-> <<>>],
     [fence |-> TRUE, entries |-> [k \in 1..N |-> IntEntry(N - k)]],
     [fence |-> TRUE,
      entries |-> [k \in 1..(N + 1) |-> IntEntry(IF k <= N THEN k - 1 ELSE 0)]]} \cup
    {[fence |-> TRUE,
      entries |-> [k \in 1..m |-> IF k < m THEN IntEntry(k - 1) ELSE last]] :
        m \in 1..N, last \in IndexEntries(N)}

(***************************************************************************)
(* The stages of src/standalone_tutorial_generator.py as functions of      *)
(* their arguments and of the response call_llm returned                   *)
(***************************************************************************)
\* lines 745-750: one file reference to an int
ParseFileIndex(idx_entry) ==
    IF IsInstanceInt(idx_entry) THEN Ok(idx_entry.v)
    ELSE IF Contains(idx_entry.s, "#")
         THEN IntOfStr(Strip(SplitFirst(idx_entry.s, "#")))
         ELSE IntOfStr(Strip(StrOfEntry(idx_entry)))

\* lines 738-760: parse the response; no check of an index against len(files_data)
identify_abstractions(files_data, response) ==
    IF ~response.fence THEN Raise("IndexError")
    ELSE LET items == response.items
             parsed == [k \in 1..Len(items) |->
                          [j \in 1..Len(items[k].file_indices) |->
                              ParseFileIndex(items[k].file_indices[j])]]
         IN  IF \E k \in 1..Len(items) : \E j \in 1..Len(parsed[k]) : ~parsed[k][j].ok
             THEN Raise("ValueError")
             ELSE Ok([k \in 1..Len(items) |->
                        [name |-> items[k].name,
                         description |-> items[k].description,
                         files |-> Sorted({parsed[k][j].val : j \in 1..Len(parsed[k])})]])

\* standalone_tutorial_generator_v2.py lines 292-293: a str reference is cut at
\* "#" and converted, any other value is taken as it is
ParseFileIndexV2(i) ==
    IF i.t = "str" THEN IntOfStr(Strip(SplitFirst(StrOfEntry(i), "#"))) ELSE Ok(i.v)

\* standalone_tutorial_generator_v2.py lines 285-301: the indices are returned
\* in the order of the response
identify_abstractions_v2(files, response) ==
    IF ~response.fence THEN Raise("IndexError")
    ELSE LET items == response.items
             indices == [k \in 1..Len(items) |->
                           [j \in 1..Len(items[k].file_indices) |->
                               ParseFileIndexV2(items[k].file_indices[j])]]
         IN  IF \E k \in 1..Len(items) : \E j \in 1..Len(indices[k]) : ~indices[k][j].ok
             THEN Raise("ValueError")
             ELSE Ok([k \in 1..Len(items) |->
                        [name |-> items[k].name,
                         description |-> items[k].description,
                         files |-> [j \in 1..Len(indices[k]) |-> indices[k][j].val]]])

\* lines 850-851: int(str(x).split("#")[0].strip())
ParseRelIndex(x) == IntOfStr(Strip(SplitFirst(StrOfEntry(x), "#")))

\* lines 845-862: parse the response; no check of from/to, no coverage check
analyze_relationships(abstractions, files_data, response) ==
    IF ~response.fence THEN Raise("IndexError")
    ELSE LET rels == response.relationships
             from == [k \in 1..Len(rels) |-> ParseRelIndex(rels[k].from_abstraction)]
             to == [k \in 1..Len(rels) |-> ParseRelIndex(rels[k].to_abstraction)]
         IN  IF \E k \in 1..Len(rels) : ~from[k].ok \/ ~to[k].ok
             THEN Raise("ValueError")
             ELSE Ok([summary |-> response.summary,
                      details |-> [k \in 1..Len(rels) |->
                                     [from |-> from[k].val, to |-> to[k].val,
                                      label |-> rels[k].label]]])

\* lines 871-876: the relationship context reads abstractions[rel["from"]] and
\* abstractions[rel["to"]] before the model is called
order_context(abstractions, relationships) ==
    IF \E k \in 1..Len(relationships.details) :
          ~PyInRange(abstractions, relationships.details[k].from)
          \/ ~PyInRange(abstractions, relationships.details[k].to)
    THEN Raise("IndexError")
    ELSE Ok([k \in 1..Len(relationships.details) |->
               <<relationships.details[k].from,
                 PyIndex(abstractions, relationships.details[k].from).name,
                 relationships.details[k].to,
                 PyIndex(abstractions, relationships.details[k].to).name,
                 relationships.details[k].label>>])

\* lines 903-908: one order entry to an int
ParseOrderEntry(entry) ==
    IF IsInstanceInt(entry) THEN Ok(entry.v)
    ELSE IF Contains(entry.s, "#")
         THEN IntOfStr(Strip(SplitFirst(entry.s, "#")))
         ELSE IntOfStr(Strip(StrOfEntry(entry)))

\* lines 898-912: parse the response; the list is returned as parsed
order_chapters(abstractions, relationships, response) ==
    IF ~response.fence THEN Raise("IndexError")
    ELSE LET parsed == [k \in 1..Len(response.entries) |->
                          ParseOrderEntry(response.entries[k])]
         IN  IF \E k \in 1..Len(parsed) : ~parsed[k].ok
             THEN Raise("ValueError")
             ELSE Ok([k \in 1..Len(parsed) |-> parsed[k].val])

(***************************************************************************)
(* Context building, prompt size handling and chapter writing              *)
(***************************************************************************)
\* join of a sequence of texts with a separator text
RECURSIVE Join(_, _)
Join(texts, sep) ==
    IF texts = <<>> THEN <<>>
    ELSE IF Len(texts) = 1 THEN texts[1]
    ELSE texts[1] \o sep \o Join(Tail(texts), sep)

\* lines 577-585: keep both ends of an oversized content
truncate_file_content(content, max_chars_per_file) ==
    IF Len(content) > max_chars_per_file
    THEN LET half_limit == max_chars_per_file \div 2
         IN  Take(content, half_limit)
               \o <<NL, NL, "... [Content truncated - showing first">>
               \o StrOfInt(half_limit) \o <<"and last">> \o StrOfInt(half_limit)
               \o <<"chars of">> \o StrOfInt(Len(content)) \o <<"total] ...", NL, NL>>
               \o TakeLast(content, half_limit)
    ELSE content

\* lines 573-587: the dict {"i # path": content} as the sequence of its items;
\* an index outside the file list is skipped
RECURSIVE get_content_for_indices(_, _, _)
get_content_for_indices(files_data, indices, max_chars_per_file) ==
    IF indices = <<>> THEN <<>>
    ELSE LET i == Head(indices)
             rest == get_content_for_indices(files_data, Tail(indices), max_chars_per_file)
         IN  IF 0 <= i /\ i < Len(files_data)
             THEN <<[index |-> i, path |-> files_data[i + 1][1],
                     content |-> truncate_file_content(files_data[i + 1][2],
                                                       max_chars_per_file)]>>
                    \o SelectSeq(rest, LAMBDA e : e.index # i)
             ELSE rest

\* lines 687-695: the truncation create_llm_context applies to every file
create_llm_context_truncate(content, max_chars_per_file) ==
    IF Len(content) > max_chars_per_file
    THEN LET half_limit == max_chars_per_file \div 2
         IN  Take(content, half_limit)
               \o <<NL, "... [Truncated - showing first">>
               \o StrOfInt(half_limit) \o <<"and last">> \o StrOfInt(half_limit)
               \o <<"chars of">> \o StrOfInt(Len(content)) \o <<"total] ...", NL>>
               \o TakeLast(content, half_limit)
    ELSE content

\* standalone_tutorial_generator_v2.py lines 245-250
truncate_content(content, max_chars) ==
    IF Len(content) <= max_chars THEN content
    ELSE LET half == max_chars \div 2
         IN  Take(content, half)
               \o <<NL, NL, "... [truncated">>
               \o StrOfInt(Len(content) - max_chars) \o <<"chars] ...", NL, NL>>
               \o TakeLast(content, half)

\* line 164-166: four characters per token
count_tokens(text) == Len(text) \div 4

\* the context limit of _ensure_prompt_fits_context (900000 in the source),
\* scaled to the size of the model's prompts
max_tokens == 18

\* the size handling with the limit compared against half the budget
ensure_prompt_fits_context_half(prompt) ==
    LET token_count == count_tokens(prompt)
        target_chars == (max_tokens * 7) \div 2
        keep_start == target_chars \div 3
        keep_end == target_chars \div 3
    IN  IF token_count <= max_tokens \div 2 THEN prompt
        ELSE IF Len(prompt) <= target_chars \div 2 THEN prompt
        ELSE Take(prompt, keep_start)
               \o <<NL, NL, "... [CONTENT TRUNCATED - Original length:">>
               \o StrOfInt(Len(prompt)) \o <<"chars,">> \o StrOfInt(token_count)
               \o <<"tokens] ...", NL, NL>>
               \o TakeLast(prompt, keep_end)

\* lines 168-192
ensure_prompt_fits_context(prompt) ==
    LET token_count == count_tokens(prompt)
        target_chars == (max_tokens * 7) \div 2
        keep_start == target_chars \div 3
        keep_end == target_chars \div 3
    IN  IF token_count <= max_tokens THEN prompt
        ELSE IF Len(prompt) <= target_chars THEN prompt
        ELSE Take(prompt, keep_start)
               \o <<NL, NL, "... [CONTENT TRUNCATED - Original length:">>
               \o StrOfInt(Len(prompt)) \o <<"chars,">> \o StrOfInt(token_count)
               \o <<"tokens] ...", NL, NL>>
               \o TakeLast(prompt, keep_end)

\* characters the cl100k_base encoding does not merge with their neighbours
DenseChars == {"#"}

\* utils/call_llm.py lines 186-188: len(encoding.encode(text)); a character of
\* DenseChars is a token of its own, other text takes four characters a token
tiktoken_count(text) ==
    LET dense == Cardinality({k \in 1..Len(text) : text[k] \in DenseChars})
    IN  dense + (Len(text) - dense) \div 4

\* utils/call_llm.py lines 184-191; encoder: "tiktoken", or "fallback" when
\* tiktoken raises
count_tokens_utils(text, encoder) ==
    IF encoder = "tiktoken" THEN tiktoken_count(text) ELSE Len(text) \div 4

\* utils/call_llm.py lines 194-220
ensure_prompt_fits_context_utils(prompt, encoder) ==
    LET token_count == count_tokens_utils(prompt, encoder)
        target_chars == (max_tokens * 7) \div 2
        keep_start == target_chars \div 3
        keep_end == target_chars \div 3
    IN  IF token_count <= max_tokens THEN prompt
        ELSE IF Len(prompt) <= target_chars THEN prompt
        ELSE Take(prompt, keep_start)
               \o <<NL, NL, "... [CONTENT TRUNCATED - Original length:">>
               \o StrOfInt(Len(prompt)) \o <<"chars,">> \o StrOfInt(token_count)
               \o <<"tokens] ...", NL, NL>>
               \o TakeLast(prompt, keep_end)

\* f"# Chapter {chapter_num}"
heading_prefix(chapter_num) == <<"#", " ", "Chapter", " ">> \o StrOfInt(chapter_num)

\* line 986: f"# Chapter {chapter_num}: {abstraction_name}"
actual_heading(chapter_num, abstraction_name) ==
    heading_prefix(chapter_num) \o <<":", " ", abstraction_name>>

\* lines 987-993: the heading the stored chapter gets
normalize_heading(chapter_content, chapter_num, abstraction_name) ==
    LET stripped == Strip(chapter_content)
        first == SplitFirst(stripped, NL)
    IN  IF StartsWith(stripped, heading_prefix(chapter_num)) THEN chapter_content
        ELSE IF StartsWith(Strip(first), <<"#">>)
             THEN actual_heading(chapter_num, abstraction_name)
                    \o SubSeq(stripped, Len(first) + 1, Len(stripped))
             ELSE actual_heading(chapter_num, abstraction_name)
                    \o <<NL, NL>> \o chapter_content

\* standalone_tutorial_generator_v2.py lines 404-406: the heading is put in
\* front of a response that does not start with the chapter's prefix
normalize_heading_v2(response, chapter_num, name) ==
    IF StartsWith(Strip(response), heading_prefix(chapter_num)) THEN response
    ELSE actual_heading(chapter_num, name) \o <<NL, NL>> \o response

\* lines 922-934: the chapter listing; reads abstractions[abstraction_index]
chapter_listing(chapter_order, abstractions) ==
    IF \E k \in 1..Len(chapter_order) : ~PyInRange(abstractions, chapter_order[k])
    THEN Raise("IndexError")
    ELSE Ok(Join([k \in 1..Len(chapter_order) |->
                    StrOfInt(k) \o <<".", " ", "[",
                                     PyIndex(abstractions, chapter_order[k]).name,
                                     "]", "(file)">>],
                 <<NL>>))

\* lines 944-950: the code snippets of one abstraction
file_context(files_data, abstraction_details) ==
    Join([k \in 1..Len(get_content_for_indices(files_data,
                                               abstraction_details.files, 6000)) |->
            LET e == get_content_for_indices(files_data,
                                             abstraction_details.files, 6000)[k]
            IN  <<"--- File:", e.path, "---", NL>> \o e.content],
         <<NL, NL>>)

\* lines 952-982: the prompt of chapter i+1 (i counts from 0)
chapter_prompt(i, chapter_order, abstractions, files_data, chapters_written_so_far) ==
    LET abstraction_details == PyIndex(abstractions, chapter_order[i + 1])
        previous_chapters_summary == Join(chapters_written_so_far, <<NL, "---", NL>>)
        file_context_str == file_context(files_data, abstraction_details)
    IN  <<NL, "Write a chapter for the project", "P", "about the concept:",
          abstraction_details.name, "This is Chapter">> \o StrOfInt(i + 1)
          \o <<NL, "Concept Details:", abstraction_details.name,
               abstraction_details.description,
               NL, "Complete Tutorial Structure:", NL>>
          \o chapter_listing(chapter_order, abstractions).val
          \o <<NL, "Context from previous chapters:", NL>>
          \o (IF previous_chapters_summary # <<>> THEN previous_chapters_summary
              ELSE <<"This is the first chapter.">>)
          \o <<NL, "Relevant Code Snippets:", NL>>
          \o (IF file_context_str # <<>> THEN file_context_str
              ELSE <<"No specific code snippets provided.">>)
          \o <<NL, "Instructions:", "- Start with heading:">>
          \o actual_heading(i + 1, abstraction_details.name)
          \o <<NL, "Now, provide the Markdown content:", NL>>

\* what a model may answer for chapter chapter_num about name
ChapterResponses(chapter_num, name) ==
    {<<"body">>,
     <<"other", NL>>,
     actual_heading(chapter_num, name) \o <<NL, NL, "body">>,
     <<"#", " ", "Intro", NL, NL, "body">>}

\* str.lower() of a name
Lower(name) ==
    CASE name = "Alpha" -> "alpha" [] name = "Beta" -> "beta"
      [] name = "Gamma" -> "gamma" [] name = "Delta" -> "delta"
      [] OTHER -> name

\* lines 1011, 1016-1017: f"A{i}"
node_id(i) == <<"A">> \o StrOfInt(i)

\* lines 1032-1033: the anchor of the i-th entry of the table of contents
toc_anchor(i, chapter_name) ==
    <<"chapter-">> \o StrOfInt(i) \o <<"-", Lower(chapter_name)>>

NoContent == [nodes |-> <<>>, edges |-> <<>>, toc |-> <<>>, sections |-> <<>>]

\* the assembly with the table of contents numbered from 0
combine_content_toc_from_zero(chapter_order, abstractions, relationships, chapters) ==
    [nodes |-> [i \in 1..Len(abstractions) |->
                  <<node_id(i - 1), abstractions[i].name>>],
     edges |-> [k \in 1..Len(relationships.details) |->
                  <<node_id(relationships.details[k].from),
                    relationships.details[k].label,
                    node_id(relationships.details[k].to)>>],
     toc |-> [i \in 1..Len(chapter_order) |->
                LET chapter_name == PyIndex(abstractions, chapter_order[i]).name
                IN  <<i - 1, chapter_name, toc_anchor(i - 1, chapter_name)>>],
     sections |-> [k \in 1..Len(chapters) |-> Strip(chapters[k])]]

\* lines 1008-1046: the parts of combined_content: the nodes and edges of the
\* diagram, the entries of the table of contents and the chapter sections
combine_content(chapter_order, abstractions, relationships, chapters) ==
    [nodes |-> [i \in 1..Len(abstractions) |->
                  <<node_id(i - 1), abstractions[i].name>>],
     edges |-> [k \in 1..Len(relationships.details) |->
                  <<node_id(relationships.details[k].from),
                    relationships.details[k].label,
                    node_id(relationships.details[k].to)>>],
     toc |-> [i \in 1..Len(chapter_order) |->
                LET chapter_name == PyIndex(abstractions, chapter_order[i]).name
                IN  <<i, chapter_name, toc_anchor(i, chapter_name)>>],
     sections |-> [k \in 1..Len(chapters) |-> Strip(chapters[k])]]

(***************************************************************************)
(* The run of main() of src/standalone_tutorial_generator.py               *)
(***************************************************************************)
VARIABLES
    program,         \* which program runs: "standalone", "scenario" (standalone on the
                     \* end-to-end scenario's inputs), "flow", "call_llm", "functions",
                     \* "mcp" (one tool call), "overlap" (two overlapping tool calls)
    pc,              \* the stage main() is at, or "done", or "failed"
    files,           \* fetch_repo's result: a list of (path, content)
    abstractions,    \* identify_abstractions' result
    relationships,   \* analyze_relationships' result
    chapter_order,   \* order_chapters' result
    chapters,        \* write_chapters' list chapters (= chapters_written_so_far)
    listed,          \* write_chapters has built its chapter listing
    sent_prompt,     \* the last chapter prompt after call_llm's size handling
    built_prompt,    \* the prompt write_chapters built for the last chapter
    error,           \* the exception that ended the run
    output_path,     \* the directory output/<project_name>
    docs_dir,        \* the directory docs/<project_name>
    fs_before,       \* both directories when the run began
    started,         \* the stages entered so far, in order
    returned,        \* the stages that returned their output, in order
    llm_calls,       \* number of call_llm calls made by each stage
    combined_content, \* combine_tutorial: the tutorial text it assembled
    flow_node,       \* flow.py: the node the flow is at, or "done", or "failed"
    cur_retry,       \* flow.py: Node.cur_retry of that node
    flow_items,      \* flow.py: items left for the batch node write_chapters
    flow_attempts,   \* flow.py: exec attempts each node made for its current item
    flow_last,       \* flow.py: how the previous attempt of the node's item ended
    flow_retried,    \* flow.py: nodes that ran exec again after a validation failure
    flow_error,      \* flow.py: the exception that ended the flow
    cache_file,      \* call_llm: the file llm_cache.json
    call_count,      \* call_llm: calls made so far
    last_call,       \* call_llm: the last call, its result and the cache before it
    applied,         \* the last application of a function to arguments, and its result
    tool_call,       \* MCP server: the generate_tutorial call being served
    runs,            \* MCP server: the two overlapping runs and their call_llm call
    environ,         \* MCP server: os.environ["LLM_PROVIDER"] of the process
    crawl,           \* GitHub crawl: the call stack of fetch_contents / fetch_dir
    server           \* MCP server: the request loop, its input and its output

pipeline_vars ==
    <<pc, files, abstractions, relationships, chapter_order, chapters, listed,
      sent_prompt, built_prompt, error, output_path, docs_dir, fs_before,
      started, returned, llm_calls, combined_content>>

flow_vars ==
    <<flow_node, cur_retry, flow_items, flow_attempts, flow_last, flow_retried,
      flow_error>>

cache_vars == <<cache_file, call_count, last_call>>

fn_vars == <<applied>>

mcp_vars == <<tool_call, runs, environ, crawl, server>>

vars == <<program, pipeline_vars, flow_vars, cache_vars, fn_vars, mcp_vars>>

\* the responses of the end-to-end scenario: two abstractions over three
\* files, two relationships, the order 0, 1
ScenarioAbstractions ==
    [fence |-> TRUE,
     items |-> <<AbsItem(1, <<IntEntry(0), IntEntry(1)>>),
                 AbsItem(2, <<IntEntry(1), IntEntry(2)>>)>>]

LabelledRel(from, to, label) ==
    [from_abstraction |-> IntEntry(from), to_abstraction |-> IntEntry(to),
     label |-> label]

\* the relationships 0 -> 1 and 1 -> 2
ScenarioRelationships ==
    [fence |-> TRUE, summary |-> "summary",
     relationships |-> <<LabelledRel(0, 1, "Uses"), LabelledRel(1, 2, "Calls")>>]

\* the relationships 0 -> 1 and 1 -> 0
ScenarioRelationshipsInRange ==
    [fence |-> TRUE, summary |-> "summary",
     relationships |-> <<LabelledRel(0, 1, "Uses"), LabelledRel(1, 0, "Calls")>>]

ScenarioOrder == [fence |-> TRUE, entries |-> <<IntEntry(0), IntEntry(1)>>]

\* the inputs of a run: those of the scenario, or any of the bounded domains
FileCounts == IF program = "scenario" THEN {3} ELSE 0..MaxFiles

AbstractionResponses(n) ==
    IF program = "scenario" THEN {ScenarioAbstractions} ELSE AbsResponses(n)

RelationshipResponses(N) ==
    IF program = "scenario"
    THEN {ScenarioRelationships, ScenarioRelationshipsInRange}
    ELSE RelResponses(N)

ChapterOrderResponses(N) ==
    IF program = "scenario" THEN {ScenarioOrder} ELSE OrderResponses(N)

StageNames ==
    {"fetch_repo", "identify_abstractions", "analyze_relationships",
     "order_chapters", "write_chapters", "combine_tutorial"}

\* main() with the call of write_chapters left out
next_stage_skips_writing(stage) ==
    CASE stage = "fetch_repo" -> "identify_abstractions"
      [] stage = "identify_abstractions" -> "analyze_relationships"
      [] stage = "analyze_relationships" -> "order_chapters"
      [] stage = "order_chapters" -> "combine_tutorial"
      [] stage = "write_chapters" -> "combine_tutorial"
      [] stage = "combine_tutorial" -> "done"

\* lines 1142-1147: the statement main() executes after a stage returned
next_stage(stage) ==
    CASE stage = "fetch_repo" -> "identify_abstractions"
      [] stage = "identify_abstractions" -> "analyze_relationships"
      [] stage = "analyze_relationships" -> "order_chapters"
      [] stage = "order_chapters" -> "write_chapters"
      [] stage = "write_chapters" -> "combine_tutorial"
      [] stage = "combine_tutorial" -> "done"

NoError == [stage |-> "none", type |-> "none"]

TutorialFile == "P_tutorial.md"

NoDir == [exists |-> FALSE, entries |-> {}]

Dir(entries) == [exists |-> TRUE, entries |-> entries]

\* the file systems a run may start from
InitialFileSystems ==
    {<<NoDir, NoDir>>,
     <<Dir({<<"notes.md", "stale">>}), Dir({<<TutorialFile, "old">>})>>}

PipelineIdle ==
    /\ pc = "idle"
    /\ files = <<>>
    /\ abstractions = <<>>
    /\ relationships = [summary |-> "none", details |-> <<>>]
    /\ chapter_order = <<>>
    /\ chapters = <<>>
    /\ listed = FALSE
    /\ sent_prompt = <<>>
    /\ built_prompt = <<>>
    /\ error = NoError
    /\ output_path = NoDir
    /\ docs_dir = NoDir
    /\ fs_before = <<NoDir, NoDir>>
    /\ started = <<>>
    /\ returned = <<>>
    /\ llm_calls = [s \in StageNames |-> 0]
    /\ combined_content = NoContent

\* main() is about to call fetch_repo
PipelineInit ==
    /\ pc = "fetch_repo"
    /\ files = <<>>
    /\ abstractions = <<>>
    /\ relationships = [summary |-> "none", details |-> <<>>]
    /\ chapter_order = <<>>
    /\ chapters = <<>>
    /\ listed = FALSE
    /\ sent_prompt = <<>>
    /\ built_prompt = <<>>
    /\ error = NoError
    /\ \E fs \in InitialFileSystems :
          /\ output_path = fs[1]
          /\ docs_dir = fs[2]
          /\ fs_before = fs
    /\ started = <<>>
    /\ returned = <<>>
    /\ llm_calls = [s \in StageNames |-> 0]
    /\ combined_content = NoContent

\* an exception leaves main(): the run ends
Fails(stage, type) ==
    /\ pc' = "failed"
    /\ error' = [stage |-> stage, type |-> type]

\* the stage returned and main() goes on
Returns(stage) ==
    /\ pc' = next_stage(stage)
    /\ returned' = Append(returned, stage)
    /\ error' = error

CallsLLM(stage) == llm_calls' = [llm_calls EXCEPT ![stage] = @ + 1]

\* an empty crawl is passed on as if it were a list of files
fetch_accepts_no_files(files_list) == FALSE

\* lines 645-646: if len(files_list) == 0: raise ValueError(...)
fetch_fails(files_list) == Len(files_list) = 0

\* lines 621-648
FetchRepo ==
    /\ pc = "fetch_repo"
    /\ started' = Append(started, "fetch_repo")
    /\ \E n \in FileCounts :
          IF fetch_fails(CrawlResult(n))
          THEN /\ Fails("fetch_repo", "ValueError")
               /\ UNCHANGED <<files, returned>>
          ELSE /\ files' = CrawlResult(n)
               /\ Returns("fetch_repo")
    /\ UNCHANGED <<abstractions, relationships, chapter_order, chapters, listed,
                   sent_prompt, built_prompt, output_path, docs_dir, fs_before,
                   llm_calls>>
    /\ UNCHANGED combined_content
    /\ UNCHANGED <<program, flow_vars, cache_vars, fn_vars, mcp_vars>>

\* lines 679-760
IdentifyAbstractions ==
    /\ pc = "identify_abstractions"
    /\ started' = Append(started, "identify_abstractions")
    /\ CallsLLM("identify_abstractions")
    /\ \/ /\ Fails("identify_abstractions", "GenerationFailure")
          /\ UNCHANGED <<abstractions, returned>>
       \/ \E response \in AbstractionResponses(Len(files)) :
             LET result == identify_abstractions(files, response)
             IN  IF result.ok
                 THEN /\ abstractions' = result.val
                      /\ Returns("identify_abstractions")
                 ELSE /\ Fails("identify_abstractions", result.err)
                      /\ UNCHANGED <<abstractions, returned>>
    /\ UNCHANGED <<files, relationships, chapter_order, chapters, listed,
                   sent_prompt, built_prompt, output_path, docs_dir, fs_before>>
    /\ UNCHANGED combined_content
    /\ UNCHANGED <<program, flow_vars, cache_vars, fn_vars, mcp_vars>>

\* lines 791-862
AnalyzeRelationships ==
    /\ pc = "analyze_relationships"
    /\ started' = Append(started, "analyze_relationships")
    /\ CallsLLM("analyze_relationships")
    /\ \/ /\ Fails("analyze_relationships", "GenerationFailure")
          /\ UNCHANGED <<relationships, returned>>
       \/ \E response \in RelationshipResponses(Len(abstractions)) :
             LET result == analyze_relationships(abstractions, files, response)
             IN  IF result.ok
                 THEN /\ relationships' = result.val
                      /\ Returns("analyze_relationships")
                 ELSE /\ Fails("analyze_relationships", result.err)
                      /\ UNCHANGED <<relationships, returned>>
    /\ UNCHANGED <<files, abstractions, chapter_order, chapters, listed,
                   sent_prompt, built_prompt, output_path, docs_dir, fs_before>>
    /\ UNCHANGED combined_content
    /\ UNCHANGED <<program, flow_vars, cache_vars, fn_vars, mcp_vars>>

\* lines 864-912
OrderChapters ==
    /\ pc = "order_chapters"
    /\ started' = Append(started, "order_chapters")
    /\ IF ~order_context(abstractions, relationships).ok
       THEN /\ Fails("order_chapters", order_context(abstractions, relationships).err)
            /\ UNCHANGED <<chapter_order, returned, llm_calls>>
       ELSE /\ CallsLLM("order_chapters")
            /\ \/ /\ Fails("order_chapters", "GenerationFailure")
                  /\ UNCHANGED <<chapter_order, returned>>
               \/ \E response \in ChapterOrderResponses(Len(abstractions)) :
                     LET result == order_chapters(abstractions, relationships, response)
                     IN  IF result.ok
                         THEN /\ chapter_order' = result.val
                              /\ Returns("order_chapters")
                         ELSE /\ Fails("order_chapters", result.err)
                              /\ UNCHANGED <<chapter_order, returned>>
    /\ UNCHANGED <<files, abstractions, relationships, chapters, listed,
                   sent_prompt, built_prompt, output_path, docs_dir, fs_before>>
    /\ UNCHANGED combined_content
    /\ UNCHANGED <<program, flow_vars, cache_vars, fn_vars, mcp_vars>>

\* the new chapter is appended and the first chapter is overwritten by it
append_chapter_overwriting_first(chapters_so_far, chapter_content) ==
    IF chapters_so_far = <<>> THEN <<chapter_content>>
    ELSE Append([chapters_so_far EXCEPT ![1] = chapter_content], chapter_content)

\* lines 995-996: chapters.append(chapter_content)
append_chapter(chapters_so_far, chapter_content) ==
    Append(chapters_so_far, chapter_content)

\* lines 914-934: write_chapters is entered and builds the chapter listing
WriteChaptersStart ==
    /\ pc = "write_chapters"
    /\ ~listed
    /\ started' = Append(started, "write_chapters")
    /\ IF ~chapter_listing(chapter_order, abstractions).ok
       THEN /\ Fails("write_chapters", "IndexError")
            /\ UNCHANGED <<listed, returned>>
       ELSE IF chapter_order = <<>>
            THEN /\ Returns("write_chapters")
                 /\ UNCHANGED listed
            ELSE /\ listed' = TRUE
                 /\ UNCHANGED <<pc, error, returned>>
    /\ UNCHANGED <<files, abstractions, relationships, chapter_order, chapters,
                   sent_prompt, built_prompt, output_path, docs_dir, fs_before,
                   llm_calls>>
    /\ UNCHANGED combined_content
    /\ UNCHANGED <<program, flow_vars, cache_vars, fn_vars, mcp_vars>>

\* lines 936-999: one pass of the loop, for chapter Len(chapters) + 1
WriteChapter ==
    /\ pc = "write_chapters"
    /\ listed
    /\ LET i == Len(chapters)
           abstraction_name == PyIndex(abstractions, chapter_order[i + 1]).name
           prompt == chapter_prompt(i, chapter_order, abstractions, files, chapters)
       IN  /\ CallsLLM("write_chapters")
           /\ built_prompt' = prompt
           /\ sent_prompt' = ensure_prompt_fits_context(prompt)
           /\ \/ /\ Fails("write_chapters", "GenerationFailure")
                 /\ UNCHANGED <<chapters, returned, listed>>
              \/ \E chapter_content \in ChapterResponses(i + 1, abstraction_name) :
                    /\ chapters' = append_chapter(chapters,
                                                  normalize_heading(chapter_content,
                                                                    i + 1,
                                                                    abstraction_name))
                    /\ IF i + 1 = Len(chapter_order)
                       THEN /\ Returns("write_chapters")
                            /\ listed' = FALSE
                       ELSE UNCHANGED <<pc, error, returned, listed>>
    /\ UNCHANGED <<files, abstractions, relationships, chapter_order, output_path,
                   docs_dir, fs_before, started>>
    /\ UNCHANGED combined_content
    /\ UNCHANGED <<program, flow_vars, cache_vars, fn_vars, mcp_vars>>

\* open(path, "w") and write: the entry of the directory is replaced
WriteFile(dir, name, content) ==
    Dir({e \in dir.entries : e[1] # name} \cup {<<name, content>>})

\* the points at which combine_tutorial's file operations can raise
CombineFailures == {"makedirs", "open", "write", "rmtree", "move"}

\* the cleaned labels are stored back into the relationships
relationships_with_cleaned_labels(rels) ==
    [rels EXCEPT !.details = [k \in 1..Len(rels.details) |->
                                [rels.details[k] EXCEPT !.label = "cleaned"]]]

\* lines 1013-1019: edge_label is a copy of rel["label"]; the relationships
\* are read, not written
relationships_after_combine(rels) == rels

\* lines 1001-1068: the assembled text is written to output_path, docs_dir is
\* removed if it exists, and output_path is moved to docs_dir
CombineTutorial ==
    /\ pc = "combine_tutorial"
    /\ started' = Append(started, "combine_tutorial")
    /\ \/ /\ Returns("combine_tutorial")
          /\ output_path' = NoDir
          /\ docs_dir' = WriteFile(Dir(output_path.entries), TutorialFile, "new")
          /\ combined_content' =
                combine_content(chapter_order, abstractions, relationships, chapters)
       \/ \E failure \in CombineFailures :
             /\ failure = "rmtree" => docs_dir.exists
             /\ Fails("combine_tutorial", "OSError")
             /\ UNCHANGED returned
             /\ combined_content' =
                  IF failure = "makedirs" THEN combined_content
                  ELSE combine_content(chapter_order, abstractions, relationships,
                                       chapters)
             /\ output_path' =
                  CASE failure = "makedirs" -> output_path
                    [] failure = "open" -> Dir(output_path.entries)
                    [] failure = "write" ->
                         WriteFile(Dir(output_path.entries), TutorialFile, "partial")
                    [] OTHER -> WriteFile(Dir(output_path.entries), TutorialFile, "new")
             /\ \/ /\ failure \in {"makedirs", "open", "write"}
                   /\ docs_dir' = docs_dir
                \/ /\ failure = "rmtree"
                   /\ \E left \in SUBSET docs_dir.entries : docs_dir' = Dir(left)
                \/ /\ failure = "move"
                   /\ docs_dir' = NoDir
    /\ relationships' = relationships_after_combine(relationships)
    /\ UNCHANGED <<files, abstractions, chapter_order, chapters, listed,
                   sent_prompt, built_prompt, fs_before, llm_calls>>
    /\ UNCHANGED <<program, flow_vars, cache_vars, fn_vars, mcp_vars>>

(***************************************************************************)
(* The flow of src/flow.py: eight PocketFlow nodes in a chain.  A Node runs *)
(* exec() up to max_retries times, sleeping wait seconds between attempts, *)
(* and re-raises the last exception; a BatchNode does so for every item.   *)
(***************************************************************************)
FlowNodes ==
    {"fetch_repo", "identify_abstractions", "analyze_relationships",
     "order_chapters", "write_chapters", "combine_tutorial",
     "merge_to_single_file", "move_to_docs"}

\* lines 28-34: the chain built with >>
flow_successor(node) ==
    CASE node = "fetch_repo" -> "identify_abstractions"
      [] node = "identify_abstractions" -> "analyze_relationships"
      [] node = "analyze_relationships" -> "order_chapters"
      [] node = "order_chapters" -> "write_chapters"
      [] node = "write_chapters" -> "combine_tutorial"
      [] node = "combine_tutorial" -> "merge_to_single_file"
      [] node = "merge_to_single_file" -> "move_to_docs"
      [] node = "move_to_docs" -> "done"

\* lines 18-25: max_retries of each node (1 where the constructor gets none)
flow_max_retries(node) ==
    IF node \in {"identify_abstractions", "analyze_relationships",
                 "order_chapters", "write_chapters"}
    THEN 5 ELSE 1

\* how one exec() of a node can end: the stage calls the generator and
\* validates the parsed response, the other nodes read or write files
ExecOutcomes(node) ==
    CASE node = "fetch_repo" -> {"ok", "FetchFailure"}
      [] node \in {"identify_abstractions", "analyze_relationships", "order_chapters"} ->
            {"ok", "GenerationFailure", "ValidationFailure"}
      [] node = "write_chapters" -> {"ok", "GenerationFailure"}
      [] OTHER -> {"ok", "PersistenceFailure"}

FlowIdle ==
    /\ flow_node = "idle"
    /\ cur_retry = 0
    /\ flow_items = 0
    /\ flow_attempts = [n \in FlowNodes |-> 0]
    /\ flow_last = "none"
    /\ flow_retried = {}
    /\ flow_error = NoError

\* line 37: Flow(start=fetch_repo)
FlowInit ==
    /\ flow_node = "fetch_repo"
    /\ cur_retry = 0
    /\ flow_items = 0
    /\ flow_attempts = [n \in FlowNodes |-> 0]
    /\ flow_last = "none"
    /\ flow_retried = {}
    /\ flow_error = NoError

\* the node's exec() succeeded for its item: the next item or the next node.
\* order_chapters fixes the number of items of the batch node; a batch
\* without items runs no exec().
FlowAdvance(node) ==
    /\ cur_retry' = 0
    /\ flow_last' = "none"
    /\ flow_error' = flow_error
    /\ IF node = "write_chapters" /\ flow_items > 1
       THEN /\ flow_items' = flow_items - 1
            /\ flow_node' = node
       ELSE IF node = "order_chapters"
       THEN \E n \in 0..MaxAbs :
               /\ flow_items' = n
               /\ flow_node' = IF n = 0 THEN flow_successor(flow_successor(node))
                               ELSE flow_successor(node)
       ELSE /\ flow_items' = 0
            /\ flow_node' = flow_successor(node)

\* one attempt of Node._exec for the current node and item
FlowExec ==
    /\ program \in {"flow", "mcp"}
    /\ flow_node \in FlowNodes
    /\ flow_attempts' = [flow_attempts EXCEPT ![flow_node] = cur_retry + 1]
    /\ flow_retried' = IF cur_retry > 0 /\ flow_last = "ValidationFailure"
                       THEN flow_retried \cup {flow_node}
                       ELSE flow_retried
    /\ \E outcome \in ExecOutcomes(flow_node) :
          IF outcome = "ok" THEN FlowAdvance(flow_node)
          ELSE IF cur_retry + 1 >= flow_max_retries(flow_node)
          THEN /\ flow_node' = "failed"
               /\ flow_error' = [stage |-> flow_node, type |-> outcome]
               /\ flow_last' = outcome
               /\ UNCHANGED <<cur_retry, flow_items>>
          ELSE /\ cur_retry' = cur_retry + 1
               /\ flow_last' = outcome
               /\ UNCHANGED <<flow_node, flow_items, flow_error>>
    /\ UNCHANGED <<program, pipeline_vars, cache_vars, fn_vars, mcp_vars>>

(***************************************************************************)
(* call_llm and its cache: src/utils/call_llm.py, and the same code in     *)
(* src/standalone_tutorial_generator.py lines 194-221 and 270-321          *)
(***************************************************************************)
\* a prompt beyond the context limit; prompts differ in one middle atom
LongPrompt(mid) ==
    [k \in 1..(4 * (max_tokens + 2)) |-> IF k = 2 * (max_tokens + 2) THEN mid ELSE "w"]

CachePrompts == {<<"p">>, <<"q">>, LongPrompt("m1"), LongPrompt("m2")}

\* texts a provider may answer, the empty text among them
ProviderResponses == {<<>>, <<"r1">>, <<"r2">>}

\* llm_cache.json: absent, a JSON object (a set of <<prompt, response>> with
\* one entry per prompt), or a file json.load cannot read
NoCacheFile == [state |-> "absent", data |-> {}]

CacheHas(data, key) == \E e \in data : e[1] = key

CacheGet(data, key) == (CHOOSE e \in data : e[1] = key)[2]

CachePut(data, key, value) == {e \in data : e[1] # key} \cup {<<key, value>>}

None == [some |-> FALSE, value |-> <<>>]

Some(v) == [some |-> TRUE, value |-> v]

\* Python's truth value of _check_cache's result: None and "" are false
Truthy(r) == r.some /\ r.value # <<>>

\* utils/call_llm.py lines 155-163: the try block raised and None is returned
check_cache_raises(file, io) ==
    file.state = "corrupt" \/ (file.state = "ok" /\ io = "read_error")

\* the entry is found although reading the file failed
check_cache_ignoring_io(file, prompt, io) ==
    IF file.state = "ok" /\ CacheHas(file.data, prompt)
    THEN Some(CacheGet(file.data, prompt))
    ELSE None

\* utils/call_llm.py lines 153-164; io: how reading the file goes
check_cache(file, prompt, io) ==
    IF file.state = "ok" /\ io = "ok" /\ CacheHas(file.data, prompt)
    THEN Some(CacheGet(file.data, prompt))
    ELSE None

SaveIO == {"ok", "read_error", "open_error", "write_error"}

\* utils/call_llm.py lines 167-181; io: how reading and writing the file go
save_to_cache(file, prompt, response, io) ==
    IF file.state = "corrupt" THEN file
    ELSE IF file.state = "ok" /\ io = "read_error" THEN file
    ELSE IF io = "open_error" THEN file
    ELSE IF io = "write_error" THEN [state |-> "corrupt", data |-> {}]
    ELSE [state |-> "ok", data |-> CachePut(file.data, prompt, response)]

\* utils/call_llm.py lines 80-150: what a provider call can do.  Gemini sends
\* one request; OpenRouter sends a second one after a 400 "maximum context
\* length"; a failing request raises.
ProviderOutcomes ==
    {[raised |-> TRUE, response |-> <<>>, posts |-> n] : n \in 1..2}
        \cup {[raised |-> FALSE, response |-> r, posts |-> n] :
                 r \in ProviderResponses, n \in 1..2}

NoCall ==
    [prompt |-> <<>>, key |-> <<>>, use_cache |-> FALSE, raised |-> FALSE,
     value |-> <<>>, posts |-> 0, read_failed |-> FALSE,
     cache_before |-> NoCacheFile, checked |-> FALSE, provided |-> None]

\* the cache is looked up whatever use_cache says
checks_cache_always(use_cache) == TRUE

\* utils/call_llm.py line 45: if use_cache: the cache is looked up
checks_cache(use_cache) == use_cache

CacheIdle ==
    /\ cache_file = NoCacheFile
    /\ call_count = 0
    /\ last_call = NoCall

\* a process that has made no call yet and has no cache file
CacheInit ==
    /\ cache_file = NoCacheFile
    /\ call_count = 0
    /\ last_call = NoCall

\* utils/call_llm.py lines 30-77: one call of call_llm(prompt, use_cache)
CallLLM ==
    /\ program = "call_llm"
    /\ call_count < MaxCalls
    /\ call_count' = call_count + 1
    /\ \E prompt \in CachePrompts, use_cache \in BOOLEAN :
          LET key == ensure_prompt_fits_context(prompt)
              call0 == [prompt |-> prompt, key |-> key, use_cache |-> use_cache,
                        raised |-> FALSE, value |-> <<>>, posts |-> 0,
                        read_failed |-> FALSE, cache_before |-> cache_file,
                        checked |-> checks_cache(use_cache), provided |-> None]
          IN  \E io_check \in (IF checks_cache(use_cache) /\ cache_file.state = "ok"
                                 THEN {"ok", "read_error"} ELSE {"ok"}) :
                 LET response_from_cache == check_cache(cache_file, key, io_check)
                     call == [call0 EXCEPT !.read_failed =
                                 checks_cache(use_cache)
                                     /\ check_cache_raises(cache_file, io_check)]
                 IN  IF checks_cache(use_cache) /\ Truthy(response_from_cache)
                     THEN /\ last_call' = [call EXCEPT !.value = response_from_cache.value]
                          /\ UNCHANGED cache_file
                     ELSE \E out \in ProviderOutcomes :
                           \E io_save \in (IF use_cache /\ ~out.raised
                                               /\ cache_file.state # "corrupt"
                                            THEN SaveIO ELSE {"ok"}) :
                             IF out.raised
                             THEN /\ last_call' = [call EXCEPT !.raised = TRUE,
                                                               !.posts = out.posts]
                                  /\ UNCHANGED cache_file
                             ELSE /\ last_call' = [call EXCEPT !.value = out.response,
                                                               !.posts = out.posts,
                                                               !.provided =
                                                                   Some(out.response)]
                                  /\ cache_file' =
                                       IF use_cache
                                       THEN save_to_cache(cache_file, key,
                                                          out.response, io_save)
                                       ELSE cache_file
    /\ UNCHANGED <<program, pipeline_vars, flow_vars, fn_vars, mcp_vars>>

(***************************************************************************)
(* The functions of the generators applied to arguments of their own       *)
(***************************************************************************)
Letters == <<"a", "b", "c", "d", "e", "f", "g", "h">>

\* a file content of L characters, all different
ContentOfLen(L) == [k \in 1..L |-> Letters[k]]

\* the places that cut a file content down to a budget
ContextPlaces == {"get_content_for_indices", "create_llm_context", "truncate_content"}

NothingApplied == [fn |-> "none"]

FunctionsIdle == applied = NothingApplied

FunctionsInit == applied = NothingApplied

\* one file's entry of the context, built at one of the three places
BuildContext ==
    /\ program = "functions"
    /\ applied = NothingApplied
    /\ \E place \in ContextPlaces, L \in 0..MaxContent, B \in 0..MaxBudget :
          LET content == ContentOfLen(L)
          IN  applied' =
                [fn |-> "build_context", place |-> place, content |-> content,
                 budget |-> B,
                 out |-> CASE place = "get_content_for_indices" ->
                                get_content_for_indices(<<<<"a.py", content>>>>,
                                                        <<0>>, B)[1].content
                           [] place = "create_llm_context" ->
                                create_llm_context_truncate(content, B)
                           [] place = "truncate_content" ->
                                truncate_content(content, B)]
    /\ UNCHANGED <<program, pipeline_vars, flow_vars, cache_vars, mcp_vars>>

\* responses a model may give for chapter chapter_num about name: with no
\* heading, with the right heading (also after white space), with another
\* title, with the heading of chapter chapter_num * 10, with the right number
\* and another name, and the empty response
HeadingResponses(chapter_num, name) ==
    ChapterResponses(chapter_num, name) \cup
    {<<>>,
     <<" ", NL>> \o actual_heading(chapter_num, name) \o <<NL, NL, "body">>,
     heading_prefix(chapter_num) \o <<"0", ":", " ", name, NL, NL, "body">>,
     heading_prefix(chapter_num) \o <<":", " ", "Other", NL, NL, "body">>,
     <<"#", " ", "Intro", NL, NL, "body", NL>>}

\* lines 984-993: the heading of one chapter response is normalised
NormalizeHeading ==
    /\ program = "functions"
    /\ applied = NothingApplied
    /\ \E chapter_num \in 1..MaxAbs :
          \E chapter_content \in HeadingResponses(chapter_num, AbsNames[chapter_num]) :
             applied' =
               [fn |-> "normalize_heading", chapter_num |-> chapter_num,
                name |-> AbsNames[chapter_num], response |-> chapter_content,
                out |-> normalize_heading(chapter_content, chapter_num,
                                          AbsNames[chapter_num]),
                again |-> normalize_heading(
                              normalize_heading(chapter_content, chapter_num,
                                                AbsNames[chapter_num]),
                              chapter_num, AbsNames[chapter_num])]
    /\ UNCHANGED <<program, pipeline_vars, flow_vars, cache_vars, mcp_vars>>

\* standalone_tutorial_generator_v2.py lines 402-408: write_chapter puts the
\* heading on one chapter response
NormalizeHeadingV2 ==
    /\ program = "functions"
    /\ applied = NothingApplied
    /\ \E chapter_num \in 1..MaxAbs :
          \E response \in HeadingResponses(chapter_num, AbsNames[chapter_num]) :
             applied' =
               [fn |-> "normalize_heading_v2", chapter_num |-> chapter_num,
                name |-> AbsNames[chapter_num], response |-> response,
                out |-> normalize_heading_v2(response, chapter_num,
                                             AbsNames[chapter_num]),
                again |-> normalize_heading_v2(
                              normalize_heading_v2(response, chapter_num,
                                                   AbsNames[chapter_num]),
                              chapter_num, AbsNames[chapter_num])]
    /\ UNCHANGED <<program, pipeline_vars, flow_vars, cache_vars, mcp_vars>>

\* the abstraction stage of either generator parses one response
ParseAbstractions ==
    /\ program = "functions"
    /\ applied = NothingApplied
    /\ \E generator \in {"standalone", "v2"}, n \in 1..MaxFiles :
          \E response \in AbsResponses(n) :
             applied' =
               [fn |-> "identify_abstractions", generator |-> generator,
                response |-> response,
                out |-> IF generator = "standalone"
                        THEN identify_abstractions(CrawlResult(n), response)
                        ELSE identify_abstractions_v2(CrawlResult(n), response)]
    /\ UNCHANGED <<program, pipeline_vars, flow_vars, cache_vars, mcp_vars>>

\* a prompt of n characters, the first d of them dense
PromptOf(n, d) == [k \in 1..n |-> IF k <= d THEN "#" ELSE Letters[((k - 1) % 8) + 1]]

\* the module whose _ensure_prompt_fits_context runs and how it counts tokens
PromptFitters ==
    {<<"standalone", "len // 4">>, <<"utils", "tiktoken">>, <<"utils", "fallback">>}

\* _ensure_prompt_fits_context of either module is applied to one prompt
FitPrompt ==
    /\ program = "functions"
    /\ applied = NothingApplied
    /\ \E fitter \in PromptFitters, n \in 0..(4 * max_tokens + 8) :
          \E d \in {0, n \div 2, n} :
             LET prompt == PromptOf(n, d)
             IN  applied' =
                   [fn |-> "ensure_prompt_fits_context", module |-> fitter[1],
                    encoder |-> fitter[2], prompt |-> prompt,
                    token_count |-> IF fitter[1] = "standalone"
                                    THEN count_tokens(prompt)
                                    ELSE count_tokens_utils(prompt, fitter[2]),
                    out |-> IF fitter[1] = "standalone"
                            THEN ensure_prompt_fits_context(prompt)
                            ELSE ensure_prompt_fits_context_utils(prompt, fitter[2])]
    /\ UNCHANGED <<program, pipeline_vars, flow_vars, cache_vars, mcp_vars>>

\* scalars a response may hold where an index is expected
ReferenceEntries == IndexEntries(1) \cup {BoolEntry(TRUE), BoolEntry(FALSE)}

\* one structured stage parses a response that holds one index reference
ParseResponse ==
    /\ program = "functions"
    /\ applied = NothingApplied
    /\ \E stage \in {"identify_abstractions", "analyze_relationships",
                      "order_chapters"},
          fence \in BOOLEAN, entry \in ReferenceEntries :
          applied' =
            [fn |-> "parse_response", stage |-> stage, fence |-> fence,
             entry |-> entry,
             out |-> CASE stage = "identify_abstractions" ->
                            identify_abstractions(
                                CrawlResult(1),
                                [fence |-> fence,
                                 items |-> <<AbsItem(1, <<entry>>)>>])
                       [] stage = "analyze_relationships" ->
                            analyze_relationships(
                                <<>>, CrawlResult(1),
                                [fence |-> fence, summary |-> "summary",
                                 relationships |->
                                     <<RelItem(entry, IntEntry(0))>>])
                       [] stage = "order_chapters" ->
                            order_chapters(
                                <<>>, [summary |-> "summary", details |-> <<>>],
                                [fence |-> fence, entries |-> <<entry>>])]
    /\ UNCHANGED <<program, pipeline_vars, flow_vars, cache_vars, mcp_vars>>

(***************************************************************************)
(* The MCP server of src/MCP/mcp_server.py: the tool generate_tutorial     *)
(* runs the flow of flow.py                                                *)
(***************************************************************************)
SourceTypes == {"repo", "dir", "zip"}

NoResult == [success |-> FALSE, message |-> "none"]

NoToolCall == [phase |-> "idle", source_type |-> "none", result |-> NoResult]

NoRuns == <<>>

NoCrawl == [generator |-> "none", pc |-> "idle", stack |-> <<>>, requests |-> 0]

NoServer ==
    [impl |-> "none", pc |-> "idle", stdin |-> <<>>, stdout |-> <<>>,
     handled |-> <<>>, flows |-> 0]

McpIdle ==
    /\ tool_call = NoToolCall
    /\ runs = NoRuns
    /\ environ = "unset"
    /\ crawl = NoCrawl
    /\ server = NoServer

\* call_tool awaits generate_tutorial(source, source_type, ...)
McpInit ==
    \E source_type \in SourceTypes :
       /\ tool_call = [phase |-> "called", source_type |-> source_type,
                       result |-> NoResult]
       /\ runs = NoRuns
       /\ environ = "unset"
       /\ crawl = NoCrawl
       /\ server = NoServer

\* every source_type passes the validation
any_source_type_is_valid(source_type) == TRUE

\* mcp_server.py line 169: source_type in ["repo", "dir"]
valid_source_type(source_type) == source_type \in {"repo", "dir"}

\* shared["final_docs_dir"] after flow.run returned: MoveToDocs, the last node
\* of the chain, stores the docs directory there
final_docs_dir(node) == IF node = "done" THEN Some("docs/P") ELSE None

\* mcp_server.py lines 167-252: the source type is validated, the output
\* directory is made and the flow is created and started
GenerateTutorialStart ==
    /\ program = "mcp"
    /\ tool_call.phase = "called"
    /\ IF ~valid_source_type(tool_call.source_type)
       THEN /\ tool_call' =
                 [tool_call EXCEPT
                    !.phase = "returned",
                    !.result = [success |-> FALSE,
                                message |-> "source_type must be either 'repo' or 'dir'"]]
            /\ UNCHANGED flow_vars
       ELSE \/ /\ tool_call' =
                    [tool_call EXCEPT
                       !.phase = "returned",
                       !.result = [success |-> FALSE,
                                   message |-> "Error generating tutorial: mkdir"]]
               /\ UNCHANGED flow_vars
            \/ /\ tool_call' = [tool_call EXCEPT !.phase = "running"]
               /\ flow_node' = "fetch_repo"
               /\ UNCHANGED <<cur_retry, flow_items, flow_attempts, flow_last,
                              flow_retried, flow_error>>
    /\ UNCHANGED <<program, pipeline_vars, cache_vars, fn_vars, runs, environ, crawl, server>>

\* mcp_server.py lines 254-274: flow.run returned or raised
GenerateTutorialReturn ==
    /\ program = "mcp"
    /\ tool_call.phase = "running"
    /\ flow_node \in {"done", "failed"}
    /\ LET docs_path == final_docs_dir(flow_node)
       IN  tool_call' =
             [tool_call EXCEPT
                !.phase = "returned",
                !.result =
                    IF flow_node = "failed"
                    THEN [success |-> FALSE,
                          message |-> "Error generating tutorial: " \o flow_error.type]
                    ELSE IF ~docs_path.some
                    THEN [success |-> FALSE,
                          message |-> "Error generating tutorial: no output directory"]
                    ELSE [success |-> TRUE,
                          message |-> "Tutorial successfully generated!"]]
    /\ UNCHANGED <<program, pipeline_vars, flow_vars, cache_vars, fn_vars, runs,
                   environ, crawl, server>>

(***************************************************************************)
(* Two generate_tutorial calls that overlap in the MCP server: each sets   *)
(* the provider and runs its flow in an executor thread, where a stage     *)
(* calls call_llm on the cache file both runs share                        *)
(***************************************************************************)
\* the llm_provider argument of each run
RequestedProvider == <<"gemini", "openrouter">>

\* the prompt of each run's call_llm call
RunPrompt == <<<<"p1">>, <<"p2">>>>

\* the cache file the runs start with
OverlapCacheFiles ==
    {NoCacheFile, [state |-> "ok", data |-> {}],
     [state |-> "ok", data |-> {<<<<"p0">>, <<"r0">>>>}]}

\* os.getenv("LLM_PROVIDER", "gemini").lower()
getenv_provider(env) == IF env = "unset" THEN "gemini" ELSE env

OverlapInit ==
    /\ tool_call = NoToolCall
    /\ environ = "unset"
    /\ crawl = NoCrawl
    /\ server = NoServer
    /\ runs = [r \in 1..2 |->
                 [pc |-> "start", provider |-> RequestedProvider[r],
                  prompt |-> RunPrompt[r], used |-> "none", response |-> <<>>,
                  cache |-> {}]]

\* mcp_server.py line 201: os.environ["LLM_PROVIDER"] = llm_provider
RunSetProvider ==
    /\ program = "overlap"
    /\ \E r \in 1..2 :
          /\ runs[r].pc = "start"
          /\ environ' = runs[r].provider
          /\ runs' = [runs EXCEPT ![r].pc = "check_cache"]
    /\ UNCHANGED <<program, pipeline_vars, flow_vars, cache_vars, fn_vars, tool_call, crawl,
                   server>>

\* utils/call_llm.py lines 45-48: the lookup before the provider is called
RunCheckCache ==
    /\ program = "overlap"
    /\ \E r \in 1..2 :
          /\ runs[r].pc = "check_cache"
          /\ LET response_from_cache == check_cache(cache_file, runs[r].prompt, "ok")
             IN  runs' = IF Truthy(response_from_cache)
                         THEN [runs EXCEPT ![r].pc = "returned",
                                           ![r].response = response_from_cache.value]
                         ELSE [runs EXCEPT ![r].pc = "call_provider"]
    /\ UNCHANGED <<program, pipeline_vars, flow_vars, cache_vars, fn_vars, tool_call,
                   environ, crawl, server>>

\* utils/call_llm.py lines 49-63: the provider is read from the environment
\* and called
RunCallProvider ==
    /\ program = "overlap"
    /\ \E r \in 1..2 :
          /\ runs[r].pc = "call_provider"
          /\ runs' = [runs EXCEPT ![r].pc = "save_read",
                                  ![r].used = getenv_provider(environ),
                                  ![r].response = <<"answer", runs[r].prompt[1]>>]
    /\ UNCHANGED <<program, pipeline_vars, flow_vars, cache_vars, fn_vars, tool_call,
                   environ, crawl, server>>

\* utils/call_llm.py lines 170-173: _save_to_cache loads the file
RunSaveRead ==
    /\ program = "overlap"
    /\ \E r \in 1..2 :
          /\ runs[r].pc = "save_read"
          /\ runs' = [runs EXCEPT ![r].pc = "save_write",
                                  ![r].cache = IF cache_file.state = "ok"
                                               THEN cache_file.data ELSE {}]
    /\ UNCHANGED <<program, pipeline_vars, flow_vars, cache_vars, fn_vars, tool_call,
                   environ, crawl, server>>

\* utils/call_llm.py lines 175-178: the entry is set and the file is written
RunSaveWrite ==
    /\ program = "overlap"
    /\ \E r \in 1..2 :
          /\ runs[r].pc = "save_write"
          /\ cache_file' = [state |-> "ok",
                            data |-> CachePut(runs[r].cache, runs[r].prompt,
                                              runs[r].response)]
          /\ runs' = [runs EXCEPT ![r].pc = "returned"]
    /\ UNCHANGED <<program, pipeline_vars, flow_vars, fn_vars, tool_call, environ,
                   crawl, server, call_count, last_call>>

(***************************************************************************)
(* The GitHub crawl: fetch_contents of crawl_github_files in               *)
(* src/standalone_tutorial_generator.py and fetch_dir of                   *)
(* crawl_github_simple in src/standalone_tutorial_generator_v2.py.  The    *)
(* repository is a chain of directories 0, 1, ..., MaxTreeDepth; a frame   *)
(* of the call stack is the directory its call fetches.                    *)
(***************************************************************************)
\* what the API can answer to a request for a directory
ApiStatus == {200, 403, 404}

CrawlInit ==
    /\ tool_call = NoToolCall
    /\ runs = NoRuns
    /\ environ = "unset"
    /\ server = NoServer
    /\ \E generator \in {"standalone", "v2"} :
          crawl = [generator |-> generator, pc |-> "fetching", stack |-> <<0>>,
                   requests |-> 0]

\* a call one frame deeper than the interpreter allows raises RecursionError
RecursionError(stack) == Len(stack) >= recursion_limit

\* the top frame requests its directory and handles the answer: a 403 makes
\* it call itself again for the same path (standalone lines 494-499, v2 lines
\* 152-156), another error makes it return (lines 501-503, 158-160), and a
\* listing makes it call itself for the sub-directory (lines 533-534,
\* 188-190).  A frame that returns makes every frame below it return: a retry
\* frame returns what its call returned and a directory has one
\* sub-directory.  A RecursionError leaves the standalone crawl; v2 catches
\* it in the frame's try block (lines 192-193) and returns.
FetchContents ==
    /\ program = "crawl"
    /\ crawl.pc = "fetching"
    /\ \E status \in ApiStatus :
          LET path == crawl.stack[Len(crawl.stack)]
              requested == [crawl EXCEPT !.requests = @ + 1]
              calls_itself == status = 403 \/ (status = 200 /\ path < MaxTreeDepth)
              next_path == IF status = 403 THEN path ELSE path + 1
          IN  crawl' =
                IF ~calls_itself
                THEN [requested EXCEPT !.pc = "returned", !.stack = <<>>]
                ELSE IF RecursionError(crawl.stack)
                THEN IF crawl.generator = "standalone"
                     THEN [requested EXCEPT !.pc = "raised", !.stack = <<>>]
                     ELSE [requested EXCEPT !.pc = "returned", !.stack = <<>>]
                ELSE [requested EXCEPT !.stack = Append(@, next_path)]
    /\ UNCHANGED <<program, pipeline_vars, flow_vars, cache_vars, fn_vars, tool_call,
                   runs, environ, server>>

(***************************************************************************)
(* The request loop of the MCP servers src/MCP/mcp_server_robust.py and    *)
(* src/mcp_server_simple.py: main reads a line, parses it, has             *)
(* handle_request answer it and prints the answer.  flow.run is followed   *)
(* in the program "mcp"; here it raises or returns, with or without        *)
(* shared["final_docs_dir"].                                               *)
(***************************************************************************)
\* JSON-RPC "method not found"
MethodNotFound == -32601

RequestIds == {1, 2}

\* a line that is not JSON, and one that is JSON but no object
NotJson ==
    [kind |-> "garbage", method |-> "none", id |-> 0, name |-> "none",
     arguments |-> "none"]

JsonArray ==
    [kind |-> "array", method |-> "none", id |-> 0, name |-> "none",
     arguments |-> "none"]

\* request objects: arguments is {"source": ..., "source_type": "repo"} or {}
Requests ==
    {[kind |-> "request", method |-> m, id |-> i, name |-> "none",
      arguments |-> "none"] :
        m \in {"initialize", "tools/list", "resources/list"}, i \in RequestIds}
    \cup
    {[kind |-> "request", method |-> "tools/call", id |-> i, name |-> n,
      arguments |-> a] :
        i \in RequestIds, n \in {"generate_tutorial", "other_tool"},
        a \in {"source", "empty"}}

Lines == {NotJson, JsonArray} \cup Requests

StdinLines == UNION {[1..n -> Lines] : n \in 0..MaxLines}

\* how flow.run(shared) ends
FlowOutcomes == {"raised", "no_docs", "docs"}

RpcInit ==
    /\ tool_call = NoToolCall
    /\ runs = NoRuns
    /\ environ = "unset"
    /\ crawl = NoCrawl
    /\ \E impl \in {"robust", "simple"}, lines \in StdinLines :
          server = [impl |-> impl, pc |-> "serving", stdin |-> lines,
                    stdout |-> <<>>, handled |-> <<>>, flows |-> 0]

ResultResponse(request_id, text) ==
    [id |-> request_id, kind |-> "result", code |-> 0, text |-> text]

ErrorResponse(request_id, code, text) ==
    [id |-> request_id, kind |-> "error", code |-> code, text |-> text]

\* a run that failed is answered with a JSON-RPC error
CallToolReportFailureAsError(request_id, message) ==
    IF message = "Tutorial successfully generated!"
    THEN ResultResponse(request_id, message)
    ELSE ErrorResponse(request_id, MethodNotFound, message)

\* robust lines 152-163, simple lines 153-164: the message, of success or of
\* failure, is the text of a result
CallToolReport(request_id, message) == ResultResponse(request_id, message)

\* what precedes flow.run in the try block: robust reads args["source"]
\* (line 80), simple makes the output directory (line 87)
FailsBeforeFlow(impl, arguments, mkdir_ok) ==
    IF impl = "robust" THEN arguments = "empty" ELSE ~mkdir_ok

\* handle_call_tool: the response, whether flow.run was called and whether
\* os.environ["LLM_PROVIDER"] was set (simple line 91)
handle_call_tool(impl, request_id, params, mkdir_ok, outcome) ==
    IF params.name = "generate_tutorial"
    THEN IF FailsBeforeFlow(impl, params.arguments, mkdir_ok)
         THEN [response |-> CallToolReport(request_id, "Error generating tutorial: setup"),
               started |-> FALSE, set_env |-> FALSE]
         ELSE [response |->
                   CallToolReport(request_id,
                       CASE outcome = "raised" -> "Error generating tutorial: flow"
                         [] outcome = "no_docs" ->
                                "Error generating tutorial: no output directory"
                         [] OTHER -> "Tutorial successfully generated!"),
               started |-> TRUE, set_env |-> impl = "simple"]
    ELSE [response |-> ErrorResponse(request_id, MethodNotFound, "Unknown tool"),
          started |-> FALSE, set_env |-> FALSE]

\* handle_request: robust lines 174-209, simple lines 172-205
handle_request(impl, request, mkdir_ok, outcome) ==
    CASE request.method = "initialize" ->
            [response |-> ResultResponse(request.id, "serverInfo"),
             started |-> FALSE, set_env |-> FALSE]
      [] request.method = "tools/list" ->
            [response |-> ResultResponse(request.id, "tools"),
             started |-> FALSE, set_env |-> FALSE]
      [] request.method = "tools/call" ->
            handle_call_tool(impl, request.id, request, mkdir_ok, outcome)
      [] OTHER ->
            [response |-> ErrorResponse(request.id, MethodNotFound, "Method not found"),
             started |-> FALSE, set_env |-> FALSE]

\* one round of the loop of main: at the end of the input the loop is left;
\* a line that json.loads rejects, and one that is no object (request.get
\* raises AttributeError), is logged and skipped; a request is answered
ServeLine ==
    /\ program = "rpc"
    /\ server.pc = "serving"
    /\ IF server.stdin = <<>>
       THEN /\ server' = [server EXCEPT !.pc = "exited"]
            /\ UNCHANGED environ
       ELSE \E mkdir_ok \in BOOLEAN, outcome \in FlowOutcomes :
              LET line == Head(server.stdin)
                  read == [server EXCEPT !.stdin = Tail(@),
                                         !.handled = Append(@, line)]
                  handling == handle_request(server.impl, line, mkdir_ok, outcome)
              IN  IF line.kind # "request"
                  THEN /\ server' = read
                       /\ UNCHANGED environ
                  ELSE /\ server' =
                            [read EXCEPT
                               !.stdout = Append(@, handling.response),
                               !.flows = IF handling.started THEN @ + 1 ELSE @]
                       /\ environ' = IF handling.set_env THEN "gemini" ELSE environ
    /\ UNCHANGED <<program, pipeline_vars, flow_vars, cache_vars, fn_vars, tool_call,
                   runs, crawl>>

(***************************************************************************)
(* The modelled programs                                                   *)
(***************************************************************************)
Init ==
    \/ program = "standalone" /\ PipelineInit /\ FlowIdle /\ CacheIdle /\ FunctionsIdle
          /\ McpIdle
    \/ program = "flow" /\ PipelineIdle /\ FlowInit /\ CacheIdle /\ FunctionsIdle
          /\ McpIdle
    \/ program = "call_llm" /\ PipelineIdle /\ FlowIdle /\ CacheInit /\ FunctionsIdle
          /\ McpIdle
    \/ program = "scenario" /\ PipelineInit /\ FlowIdle /\ CacheIdle /\ FunctionsIdle
          /\ McpIdle
    \/ program = "functions" /\ PipelineIdle /\ FlowIdle /\ CacheIdle /\ FunctionsInit
          /\ McpIdle
    \/ program = "mcp" /\ PipelineIdle /\ FlowIdle /\ CacheIdle /\ FunctionsIdle
          /\ McpInit
    \/ program = "crawl" /\ PipelineIdle /\ FlowIdle /\ CacheIdle /\ FunctionsIdle
          /\ CrawlInit
    \/ program = "rpc" /\ PipelineIdle /\ FlowIdle /\ CacheIdle /\ FunctionsIdle
          /\ RpcInit
    \/ program = "overlap" /\ PipelineIdle /\ FlowIdle /\ FunctionsIdle
          /\ OverlapInit
          /\ cache_file \in OverlapCacheFiles /\ call_count = 0 /\ last_call = NoCall

Next ==
    \/ FetchRepo
    \/ IdentifyAbstractions
    \/ AnalyzeRelationships
    \/ OrderChapters
    \/ WriteChaptersStart
    \/ WriteChapter
    \/ CombineTutorial
    \/ FlowExec
    \/ CallLLM
    \/ BuildContext
    \/ NormalizeHeading
    \/ NormalizeHeadingV2
    \/ ParseAbstractions
    \/ ParseResponse
    \/ FitPrompt
    \/ GenerateTutorialStart
    \/ GenerateTutorialReturn
    \/ RunSetProvider
    \/ RunCheckCache
    \/ RunCallProvider
    \/ RunSaveRead
    \/ RunSaveWrite
    \/ FetchContents
    \/ ServeLine

Spec == Init /\ [][Next]_vars

(***************************************************************************)
(* Properties of the run of main()                                         *)
(***************************************************************************)
Returned(stage) == stage \in SetOfSeq(returned)

NumAbstractions == Len(abstractions)

\* the first position >= start at which part occurs in text, or 0
RECURSIVE FindFrom(_, _, _)
FindFrom(text, part, start) ==
    IF start + Len(part) - 1 > Len(text) THEN 0
    ELSE IF SubSeq(text, start, start + Len(part) - 1) = part THEN start
    ELSE FindFrom(text, part, start + 1)

Occurs(text, part) == FindFrom(text, part, 1) # 0

\* the parts occur in text in full, one after the other
RECURSIVE OccurInOrder(_, _, _)
OccurInOrder(text, parts, start) ==
    IF parts = <<>> THEN TRUE
    ELSE LET at == FindFrom(text, Head(parts), start)
         IN  at # 0 /\ OccurInOrder(text, Tail(parts), at + Len(Head(parts)))

\* C1: every abstraction identify_abstractions returned has all its file
\* indices in [0, N) for the N files fetched
C1_FileIndicesInRange ==
    Returned("identify_abstractions") =>
        \A k \in 1..Len(abstractions) : \A j \in 1..Len(abstractions[k].files) :
            0 <= abstractions[k].files[j] /\ abstractions[k].files[j] < Len(files)

RelationshipIndices ==
    {relationships.details[k].from : k \in 1..Len(relationships.details)}
        \cup {relationships.details[k].to : k \in 1..Len(relationships.details)}

\* C2: when analyze_relationships returned, the indices appearing as from or
\* to are exactly 0..N-1 for the N abstractions: no abstraction is an orphan
C2_FullCoverage ==
    Returned("analyze_relationships") =>
        RelationshipIndices = 0..(NumAbstractions - 1)

IsPermutation(order, N) ==
    Len(order) = N /\ SetOfSeq(order) = 0..(N - 1)

\* C3: when order_chapters returned, its result is a permutation of 0..N-1
C3_OrderIsPermutation ==
    Returned("order_chapters") => IsPermutation(chapter_order, NumAbstractions)

\* C4: with two abstractions and the chapter order [0, 0] the generator is
\* never called for a chapter and no chapter text exists
C4_NoChapterForDuplicateOrder ==
    (NumAbstractions = 2 /\ chapter_order = <<0, 0>>) =>
        (llm_calls["write_chapters"] = 0 /\ chapters = <<>>)

\* C5: every relationship analyze_relationships returned has from and to in
\* [0, N), so that later stages index the abstraction list only inside it
C5_RelationshipIndicesInRange ==
    Returned("analyze_relationships") =>
        \A k \in 1..Len(relationships.details) :
            /\ 0 <= relationships.details[k].from
            /\ relationships.details[k].from < NumAbstractions
            /\ 0 <= relationships.details[k].to
            /\ relationships.details[k].to < NumAbstractions

\* a chapter prompt went through call_llm and the chapter was stored
ChapterStored ==
    /\ pc \in {"write_chapters", "combine_tutorial"}
    /\ sent_prompt # <<>>

TutorialTexts == {"new", "partial"}

\* C7: a failed run leaves no new or half-written tutorial file and the
\* artifact in docs_dir as it was; a tutorial file exists only once every
\* chapter of the order was written
C7_AllOrNothing ==
    /\ pc = "failed" =>
          /\ docs_dir = fs_before[2]
          /\ \A e \in output_path.entries \cup docs_dir.entries : e[2] \notin TutorialTexts
    /\ (\E e \in output_path.entries \cup docs_dir.entries : e[2] \in TutorialTexts) =>
          (Returned("write_chapters") /\ Len(chapters) = Len(chapter_order))

IsPrefix(s, t) == Len(s) <= Len(t) /\ SubSeq(t, 1, Len(s)) = s

C8_Order ==
    <<"fetch_repo", "identify_abstractions", "analyze_relationships",
      "order_chapters", "write_chapters", "combine_tutorial">>

\* C8: the stages start in the fixed order, each at most once and only after
\* the previous one returned; the run leaves this sequence only by failing
C8_StagesInFixedOrder ==
    /\ IsPrefix(started, C8_Order)
    /\ IsPrefix(returned, started)
    /\ Len(started) <= Len(returned) + 1
    /\ pc \in StageNames => pc = C8_Order[Len(returned) + 1]
    /\ pc = "done" => returned = C8_Order
    /\ pc = "failed" => (error # NoError /\ Len(started) = Len(returned) + 1)

\* a run that went through all six stages and wrote two chapters
C8_Witness == pc = "done" /\ Len(chapters) = 2 /\ returned = C8_Order

\* C16: a crawl that yields no file ends the run in fetch_repo: no stage
\* after it starts, the generator is not called by any stage, and the output
\* directory and the docs directory are as they were before the run.
C16_NoFilesFailsAtFetch ==
    (program \in {"standalone", "scenario"} /\ started # <<>> /\ files = <<>>) =>
        /\ pc = "failed"
        /\ error = [stage |-> "fetch_repo", type |-> "ValueError"]
        /\ started = <<"fetch_repo">>
        /\ returned = <<>>
        /\ \A stage \in StageNames : llm_calls[stage] = 0
        /\ output_path = fs_before[1]
        /\ docs_dir = fs_before[2]
        /\ combined_content = NoContent

\* the crawl found nothing and the run has ended, an older tutorial in place
C16_Witness ==
    /\ started = <<"fetch_repo">>
    /\ files = <<>>
    /\ pc = "failed"
    /\ docs_dir # NoDir

\* C15: write_chapters calls the generator once for every entry of the
\* chapter order and appends one chapter for it: the prompt of the i-th call
\* asks for chapter i about the abstraction order[i], the chapters written
\* before stay as they are, and the stage returns as many chapters as the
\* order has entries, after as many calls.
C15_OneChapterPerEntry ==
    [][/\ IsPrefix(chapters, chapters')
       /\ Len(chapters') <= Len(chapters) + 1
       /\ Len(chapters') <= Len(chapter_order')
       /\ Len(chapters') = Len(chapters) + 1 =>
             /\ llm_calls'["write_chapters"] = Len(chapters')
             /\ SubSeq(built_prompt', 4, 6 + Len(StrOfInt(Len(chapters')))) =
                   <<"about the concept:",
                     PyIndex(abstractions, chapter_order[Len(chapters')]).name,
                     "This is Chapter">> \o StrOfInt(Len(chapters'))
       /\ llm_calls'["write_chapters"] \in {Len(chapters'), Len(chapters') + 1}
       /\ llm_calls'["write_chapters"] = Len(chapters') + 1 =>
             error'.type = "GenerationFailure"
       /\ (pc' \in {"combine_tutorial", "done"}
            \/ (pc' = "failed" /\ error'.stage = "combine_tutorial")) =>
             /\ Len(chapters') = Len(chapter_order')
             /\ llm_calls'["write_chapters"] = Len(chapter_order')]_vars

\* write_chapters returned two or more chapters
C15_Witness == Returned("write_chapters") /\ Len(chapters) >= 2

\* the text of a reference up to a "#" is an integer literal
IsIntegerReference(entry) ==
    \/ entry.t = "int"
    \/ entry.t = "str" /\ IntOfStr(SplitFirst(entry.s, "#")).ok

\* C17: a structured stage fails when the response has no ```yaml block or
\* when an index reference in it is not an integer; a structured stage that
\* failed has not returned and no stage was started after it.
C17_MalformedResponseFailsStage ==
    /\ (applied.fn = "parse_response"
         /\ (~applied.fence \/ ~IsIntegerReference(applied.entry))) =>
           ~applied.out.ok
    /\ (program \in {"standalone", "scenario"}
         /\ error.stage \in {"identify_abstractions", "analyze_relationships",
                             "order_chapters"}) =>
           /\ pc = "failed"
           /\ error.stage \notin SetOfSeq(returned)
           /\ started[Len(started)] = error.stage

IsHeadMarkerTail(out, text) ==
    \E p \in 3..Len(out) : \E q \in p..Len(out) :
       /\ out[p] = "... [CONTENT TRUNCATED - Original length:"
       /\ \A k \in 1..Len(out) : out[k] = out[p] => k = p
       /\ out[q] = "tokens] ..."
       /\ q + 2 <= Len(out)
       /\ p - 3 <= Len(text) /\ Len(out) - (q + 2) <= Len(text)
       /\ SubSeq(out, 1, p - 3) = Take(text, p - 3)
       /\ SubSeq(out, q + 3, Len(out)) = TakeLast(text, Len(out) - (q + 2))

\* C19: a prompt whose token count is over the limit leaves
\* _ensure_prompt_fits_context as a head, one elision marker and a tail of it,
\* shorter than it was; a prompt within the limit leaves it unchanged.
C19_OversizedPromptIsTruncated ==
    applied.fn = "ensure_prompt_fits_context" =>
        IF applied.token_count > max_tokens
        THEN /\ applied.out # applied.prompt
             /\ IsHeadMarkerTail(applied.out, applied.prompt)
             /\ Len(applied.out) < Len(applied.prompt)
        ELSE applied.out = applied.prompt

\* C20: when combine_tutorial has returned, the docs directory of the project
\* holds the new tutorial file and nothing else and the output directory is
\* gone; when it failed after the new file was written, a tutorial that was in
\* the docs directory before the run is still there.
C20_DocsHoldExactlyTheNewTutorial ==
    /\ Returned("combine_tutorial") =>
          /\ docs_dir = Dir({<<TutorialFile, "new">>})
          /\ output_path = NoDir
    /\ (pc = "failed" /\ error.stage = "combine_tutorial"
         /\ output_path.exists
         /\ <<TutorialFile, "new">> \in output_path.entries
         /\ fs_before[2].exists) =>
          /\ docs_dir.exists
          /\ fs_before[2].entries \subseteq docs_dir.entries

(***************************************************************************)
(* Properties of the flow of flow.py                                       *)
(***************************************************************************)
StructuredStages == {"identify_abstractions", "analyze_relationships", "order_chapters"}

\* C9: a validation failure of a stage's parsed response is never retried:
\* the stage does not invoke the generator again after it and the run fails
\* on that first failure.  In main() every structured stage calls call_llm
\* at most once and a failure ends the run; in the flow no node runs exec()
\* again after a validation failure, which ends the flow at once.
C9_ValidationFailureNeverRetried ==
    /\ \A s \in StructuredStages : llm_calls[s] <= 1
    /\ error # NoError => pc = "failed"
    /\ flow_retried = {}
    /\ flow_last = "ValidationFailure" => flow_node = "failed"

(***************************************************************************)
(* Properties of call_llm                                                  *)
(***************************************************************************)
\* C10: when the cache holds a response under prompt p, the empty text
\* included, and the cache file can be read, call_llm(p, use_cache=True)
\* returns that response and sends no request to a provider; this holds of
\* every call, so of a second identical call too.
C10_CachedResponseReturnedWithoutTransport ==
    (/\ last_call.use_cache
     /\ ~last_call.read_failed
     /\ last_call.cache_before.state = "ok"
     /\ CacheHas(last_call.cache_before.data, last_call.prompt))
        => /\ ~last_call.raised
           /\ last_call.posts = 0
           /\ last_call.value = CacheGet(last_call.cache_before.data, last_call.prompt)

(***************************************************************************)
(* Properties of the functions                                             *)
(***************************************************************************)
\* C11: a content longer than the budget B becomes its first B/2 characters,
\* one elision marker that mentions the content's length, and its last B/2
\* characters, and nothing else of the content; a content within the budget
\* is unchanged.  The same at every place, for odd and even B.
C11_TruncationKeepsHeadMarkerTail ==
    applied.fn = "build_context" =>
        LET content == applied.content
            out == applied.out
            L == Len(content)
            half == applied.budget \div 2
        IN  IF L <= applied.budget THEN out = content
            ELSE /\ Len(out) >= 2 * half
                 /\ SubSeq(out, 1, half) = SubSeq(content, 1, half)
                 /\ SubSeq(out, Len(out) - half + 1, Len(out))
                       = SubSeq(content, L - half + 1, L)
                 /\ LET marker == SubSeq(out, half + 1, Len(out) - half)
                    IN  /\ Occurs(marker, StrOfInt(L))
                        /\ SetOfSeq(marker) \cap SetOfSeq(content) = {}

(***************************************************************************)
(* The end-to-end scenario                                                 *)
(***************************************************************************)
\* the run got the relationships 0 -> 1, 1 -> 2 / the relationships 0 -> 1, 1 -> 0
LiteralScenarioRun ==
    /\ program = "scenario"
    /\ Returned("analyze_relationships")
    /\ relationships.details[2].to = 2

InRangeScenarioRun ==
    /\ program = "scenario"
    /\ Returned("analyze_relationships")
    /\ relationships.details[2].to = 0

\* no stage rejects its input, and the tutorial of a completed run has two
\* chapter sections in the order 0, 1, two nodes, two edges between these
\* nodes and two entries in the table of contents with anchors made from
\* the two names
ScenarioOutcome ==
    /\ error.type \notin {"IndexError", "ValueError"}
    /\ pc = "done" =>
          /\ Len(combined_content.sections) = 2
          /\ StartsWith(combined_content.sections[1], actual_heading(1, "Alpha"))
          /\ StartsWith(combined_content.sections[2], actual_heading(2, "Beta"))
          /\ Len(combined_content.nodes) = 2
          /\ Len(combined_content.edges) = 2
          /\ \A k \in 1..2 : \A end \in {1, 3} :
                \E i \in 1..2 :
                   combined_content.edges[k][end] = combined_content.nodes[i][1]
          /\ Len(combined_content.toc) = 2
          /\ combined_content.toc[1][3] = <<"chapter-", "1", "-", "alpha">>
          /\ combined_content.toc[2][3] = <<"chapter-", "2", "-", "beta">>

\* C12 as stated: with 3 files, abstractions over the files {0,1} and {1,2},
\* the relationships 0 -> 1 and 1 -> 2 and the order [0, 1], the pipeline
\* completes with 2 chapter sections, 2 nodes, 2 edges and 2 entries
C12_LiteralScenarioCompletes == LiteralScenarioRun => ScenarioOutcome

\* C12 amended: the same with the relationships 0 -> 1 and 1 -> 0, which
\* name existing abstractions only
C12_InRangeScenarioCompletes == InRangeScenarioRun => ScenarioOutcome

\* the in-range scenario ran to its end
C12_Witness == InRangeScenarioRun /\ pc = "done"

\* the first line of text is line
FirstLineIs(text, line) ==
    /\ StartsWith(text, line)
    /\ Len(text) = Len(line) \/ text[Len(line) + 1] = NL

\* C13: whatever the response, the stored content of chapter n begins at its
\* first character with the line "# Chapter n: <name>"; a response that
\* starts with the heading of another number with the same prefix, or of
\* another name, is not kept as it is.
C13_StoredChapterBeginsWithItsHeading ==
    applied.fn = "normalize_heading" =>
        FirstLineIs(applied.out, actual_heading(applied.chapter_num, applied.name))

\* the ints of s go up strictly
StrictlyAscending(s) == \A j \in 1..(Len(s) - 1) : s[j] < s[j + 1]

\* C14: the abstractions an accepted response yields are the response's
\* records in their order, and the file-index list of each is strictly
\* ascending (sorted, no duplicates) and holds the bare integers of the
\* record's references
C14_FileIndicesSortedAndUnique ==
    (applied.fn = "identify_abstractions" /\ applied.out.ok) =>
        /\ Len(applied.out.val) = Len(applied.response.items)
        /\ \A k \in 1..Len(applied.out.val) :
              LET refs == applied.response.items[k].file_indices
              IN  /\ applied.out.val[k].name = applied.response.items[k].name
                  /\ StrictlyAscending(applied.out.val[k].files)
                  /\ SetOfSeq(applied.out.val[k].files)
                        = {ParseFileIndex(refs[j]).val : j \in 1..Len(refs)}

\* C21: the cache only grows over the calls of one process: an entry that is
\* in llm_cache.json stays in it, under the same key with the same value.
C21_CacheOnlyGrows ==
    [][cache_file.state = "ok" =>
          /\ cache_file'.state = "ok"
          /\ cache_file.data \subseteq cache_file'.data]_vars

\* C22: generate_tutorial always returns a result; success is True only when
\* the flow ran through move_to_docs, its last node; when a node of the flow
\* failed, or when source_type is neither "repo" nor "dir" (the flow is then
\* never started), the result has success False and an error message.
C22_ToolReportsPipelineOutcome ==
    program = "mcp" =>
        /\ tool_call.phase \in {"called", "running", "returned"}
        /\ ~valid_source_type(tool_call.source_type) => flow_node = "idle"
        /\ tool_call.phase = "returned" =>
              /\ tool_call.result # NoResult
              /\ tool_call.result.success =>
                    /\ flow_node = "done"
                    /\ flow_attempts["move_to_docs"] >= 1
                    /\ final_docs_dir(flow_node).some
              /\ (flow_node = "failed"
                   \/ tool_call.source_type \notin {"repo", "dir"}) =>
                    /\ ~tool_call.result.success
                    /\ tool_call.result.message # "Tutorial successfully generated!"
        /\ (tool_call.phase # "returned" /\ tool_call.source_type \notin {"repo", "dir"})
              => flow_node = "idle"

\* a node of the flow failed after the tool started it and the tool returned
C22_Witness ==
    /\ program = "mcp"
    /\ tool_call.phase = "returned"
    /\ flow_node = "failed"
    /\ flow_error.stage = "write_chapters"
    /\ ~tool_call.result.success

\* the three cases of the heading normalisation, on the response's text after
\* its leading white space
ThreeCaseHeading(response, chapter_num, name) ==
    LET text == LStrip(response)
        first == SplitFirst(text, NL)
    IN  IF StartsWith(text, heading_prefix(chapter_num)) THEN response
        ELSE IF StartsWith(first, <<"#">>)
             THEN actual_heading(chapter_num, name)
                    \o SubSeq(text, Len(first) + 1, Len(text))
             ELSE actual_heading(chapter_num, name) \o <<NL, NL>> \o response

\* C23: the heading normalisation of either generator is the three-case
\* function: a response that starts with the chapter's heading prefix is kept,
\* else a first line starting with "#" is replaced by the heading and the
\* lines after it are kept (up to white space at the end), else the heading
\* and a blank line are put in front; normalising the result again changes
\* nothing.
C23_HeadingNormalisationThreeCases ==
    applied.fn \in {"normalize_heading", "normalize_heading_v2"} =>
        /\ RStrip(applied.out)
             = RStrip(ThreeCaseHeading(applied.response, applied.chapter_num,
                                       applied.name))
        /\ applied.again = applied.out

\* C24: once its stage has returned, the file list, the abstraction list, the
\* relationships and the chapter order are changed by no later step of the
\* run, the steps of write_chapters and combine_tutorial among them.
C24_EarlierOutputsUnchanged ==
    [][/\ Returned("fetch_repo") => files' = files
       /\ Returned("identify_abstractions") => abstractions' = abstractions
       /\ Returned("analyze_relationships") => relationships' = relationships
       /\ Returned("order_chapters") => chapter_order' = chapter_order]_vars

\* a run ended after combine_tutorial with relationships and two chapters
C24_Witness ==
    /\ Returned("combine_tutorial")
    /\ Len(files) >= 1
    /\ Len(relationships.details) >= 1
    /\ Len(chapter_order) >= 2
    /\ Len(chapters) = Len(chapter_order)

\* C25: when the two overlapping call_llm calls, with different prompts that
\* both missed the cache, have returned, the cache file holds an entry for
\* each of the two prompts.
C25_NoLostCacheUpdate ==
    (program = "overlap" /\ \A r \in 1..2 : runs[r].pc = "returned") =>
        \A r \in 1..2 :
           /\ cache_file.state = "ok"
           /\ <<runs[r].prompt, runs[r].response>> \in cache_file.data

\* C26: the provider a run's call_llm call uses is the provider that was
\* requested for that run, whatever the other run sets.
C26_RunUsesItsOwnProvider ==
    program = "overlap" =>
        \A r \in 1..2 : runs[r].used # "none" => runs[r].used = runs[r].provider

\* C27: whatever the API answers, the crawl of a finite repository returns:
\* it re-requests a path a bounded number of times after 403 answers and does
\* not end in an exception.
C27_CrawlReturns ==
    program = "crawl" =>
        /\ crawl.pc \in {"fetching", "returned"}
        /\ crawl.requests <= recursion_limit + MaxTreeDepth

\* C28: the request loop answers every request line with exactly one response
\* that carries the request's id: "initialize", "tools/list" and a
\* generate_tutorial call get a result (also when the run fails), another
\* method or tool gets error -32601 and starts no pipeline; a line that is not
\* JSON gets no response, and the loop goes on serving.
C28_EveryRequestAnsweredOnce ==
    [][(program = "rpc" /\ server.pc = "serving" /\ server.stdin # <<>>) =>
          LET line == Head(server.stdin)
              response == server'.stdout[Len(server'.stdout)]
              generates == line.method = "tools/call" /\ line.name = "generate_tutorial"
          IN  /\ server'.pc = "serving"
              /\ server'.stdin = Tail(server.stdin)
              /\ line.kind = "garbage" => server'.stdout = server.stdout
              /\ line.kind = "request" =>
                    /\ Len(server'.stdout) = Len(server.stdout) + 1
                    /\ SubSeq(server'.stdout, 1, Len(server.stdout)) = server.stdout
                    /\ response.id = line.id
                    /\ IF line.method \in {"initialize", "tools/list"} \/ generates
                       THEN response.kind = "result"
                       ELSE /\ response.kind = "error"
                            /\ response.code = MethodNotFound
                    /\ ~generates => server'.flows = server.flows]_vars

\* a line that is not JSON was skipped and the generate_tutorial call after it,
\* whose run failed, was answered with a result
C28_Witness ==
    /\ program = "rpc"
    /\ Len(server.handled) = 2
    /\ server.handled[1].kind = "garbage"
    /\ server.handled[2].method = "tools/call"
    /\ server.handled[2].name = "generate_tutorial"
    /\ server.flows = 1
    /\ Len(server.stdout) = 1
    /\ server.stdout[1].id = server.handled[2].id
    /\ server.stdout[1].kind = "result"
    /\ server.stdout[1].text = "Error generating tutorial: flow"

C29_WitnessWriteFailed ==
    /\ program = "call_llm"
    /\ last_call.provided.some
    /\ last_call.value = last_call.provided.value
    /\ last_call.value # <<>>
    /\ last_call.cache_before.state = "ok"
    /\ cache_file.state = "corrupt"

\* C30: a call of call_llm for a prompt q that follows a call which stored the
\* provider's response for another prompt p does not return that response from
\* the cache, also when both prompts are beyond the context limit and are
\* truncated before the lookup.
C30_CachedResponseOnlyForItsPrompt ==
    [][(/\ program = "call_llm"
        /\ call_count' = call_count + 1
        /\ last_call.use_cache
        /\ last_call.provided.some
        /\ cache_file.state = "ok"
        /\ <<last_call.key, last_call.provided.value>> \in cache_file.data
        /\ last_call'.prompt # last_call.prompt)
       => ~(/\ last_call'.checked
            /\ ~last_call'.raised
            /\ ~last_call'.provided.some
            /\ last_call'.key = last_call.key
            /\ last_call'.value = last_call.provided.value)]_vars

====
